---------------------------- MODULE Spec2Model ----------------------------
(***************************************************************************)
(* The run loops of the wipe and the expand effect                        *)
(* (terminaltexteffects/effects/effect_wipe.py, effect_expand.py).         *)
(*                                                                         *)
(* One run of one effect is a sequential process; pc is its position in    *)
(* run().  A character is its input coordinate <<row, column>>.  The       *)
(* terminal and the characters' animation engine are outside the two       *)
(* files: the terminal is modelled by what the effects call on it          *)
(* (visibility, print, grouping), a character's animation by the number    *)
(* of tick() calls after which is_active turns false.                      *)
(***************************************************************************)
EXTENDS Integers, Sequences, FiniteSets

\* ------------------------------------------------------------------ bounds
\* largest canvas top extent (output_area.top) tried
MaxTop == 1
\* the canvas has two columns: the fewest for which the column, row and
\* diagonal groupings of a collection differ
Columns == {1, 2}
\* largest number of characters in the collection
MaxChars == 2
\* largest number of tick() calls a finishing character needs
MaxLife == 2
\* largest --wipe-delay tried
MaxDelay == 1

\* life of a character whose is_active never turns false
Forever == -1
\* release tick of a character that has not been released
Never == -1

\* the most groups a collection can be split into
MaxGroups == MaxChars
\* ticks after which the model stops following a run that is still looping:
\* later than the last tick of every run whose characters all finish
MaxTick == MaxGroups * (MaxDelay + 1) + MaxLife

VARIABLES
    effect,                     \* "wipe" | "expand": which effect runs
    direction,                  \* WipeEffect.direction (args.wipe_direction)
    wipe_delay_arg,             \* args.wipe_delay
    top,                        \* terminal.output_area.top
    chars,                      \* terminal.get_characters(), as a set
    life,                       \* per character: tick() calls left before is_active is False
    pc,                         \* position in run()
    err,                        \* the exception that ended the run, or "none"
    character_final_color_map,  \* character -> the fraction its final colour is taken at
    groups,                     \* what get_characters_grouped returned
    pending_groups,             \* WipeEffect.pending_groups
    active_chars,               \* active_chars of either effect
    wipe_delay,                 \* the local countdown of WipeEffect.run
    visible,                    \* characters set visible on the terminal
    frames,                     \* number of terminal.print() calls
    tick,                       \* number of completed iterations of the run loop
    ticks,                      \* per character: number of tick() calls received
    released_at,                \* per character: the tick it was released in, or Never
    release_log,                \* the set_character_visibility(c, True) calls, in order
    settled,                    \* characters removed from active_chars, in order
    shown,                      \* characters that were visible at some terminal.print()
    rounds,                     \* number of animate_chars() calls
    lastOp                      \* the step of run() performed last

vars == <<effect, direction, wipe_delay_arg, top, chars, life, pc, err,
          character_final_color_map, groups, pending_groups, active_chars,
          wipe_delay, visible, frames, tick, ticks, released_at, release_log, settled,
          shown, rounds, lastOp>>

\* ------------------------------------------------------------ the terminal
Row(c) == c[1]
Col(c) == c[2]

\* the coordinates of a canvas with top extent t
Canvas(t) == (0..t) \X Columns

\* reading order: upper rows first, then left to right
ReadsBefore(c, d) == Row(c) > Row(d) \/ (Row(c) = Row(d) /\ Col(c) <= Col(d))

RECURSIVE SortChars(_)
SortChars(S) ==
    IF S = {} THEN <<>>
    ELSE LET c == CHOOSE x \in S : \A y \in S : ReadsBefore(x, y)
         IN  <<c>> \o SortChars(S \ {c})

\* terminal.get_characters(): the collection in reading order
GetCharacters == SortChars(chars)

RECURSIVE SortInts(_, _)
SortInts(S, ascending) ==
    IF S = {} THEN <<>>
    ELSE LET k == CHOOSE x \in S : \A y \in S : IF ascending THEN x <= y ELSE x >= y
         IN  <<k>> \o SortInts(S \ {k}, ascending)

WipeDirections ==
    { "column_left_to_right", "column_right_to_left",
      "row_top_to_bottom", "row_bottom_to_top",
      "diagonal_top_left_to_bottom_right", "diagonal_bottom_left_to_top_right",
      "diagonal_top_right_to_bottom_left", "diagonal_bottom_right_to_top_left" }

\* sort_map of WipeEffect.prepare_data: the eight recognised directions
sort_map ==
    [d \in WipeDirections |->
        CASE d = "column_left_to_right" -> "COLUMN_LEFT_TO_RIGHT"
          [] d = "column_right_to_left" -> "COLUMN_RIGHT_TO_LEFT"
          [] d = "row_top_to_bottom" -> "ROW_TOP_TO_BOTTOM"
          [] d = "row_bottom_to_top" -> "ROW_BOTTOM_TO_TOP"
          [] d = "diagonal_top_left_to_bottom_right" -> "DIAGONAL_TOP_LEFT_TO_BOTTOM_RIGHT"
          [] d = "diagonal_bottom_left_to_top_right" -> "DIAGONAL_BOTTOM_LEFT_TO_TOP_RIGHT"
          [] d = "diagonal_top_right_to_bottom_left" -> "DIAGONAL_TOP_RIGHT_TO_BOTTOM_LEFT"
          [] d = "diagonal_bottom_right_to_top_left" -> "DIAGONAL_BOTTOM_RIGHT_TO_TOP_LEFT"]

\* the line (column, row or diagonal) of a character under a grouping
GroupKey(grouping, c) ==
    CASE grouping \in {"COLUMN_LEFT_TO_RIGHT", "COLUMN_RIGHT_TO_LEFT"} -> Col(c)
      [] grouping \in {"ROW_TOP_TO_BOTTOM", "ROW_BOTTOM_TO_TOP"} -> Row(c)
      [] grouping \in {"DIAGONAL_TOP_LEFT_TO_BOTTOM_RIGHT",
                       "DIAGONAL_BOTTOM_RIGHT_TO_TOP_LEFT"} -> Col(c) - Row(c)
      [] OTHER -> Col(c) + Row(c)

\* whether the grouping visits its lines by increasing key
KeyAscending(grouping) ==
    grouping \in {"COLUMN_LEFT_TO_RIGHT", "ROW_BOTTOM_TO_TOP",
                  "DIAGONAL_TOP_LEFT_TO_BOTTOM_RIGHT", "DIAGONAL_BOTTOM_LEFT_TO_TOP_RIGHT"}

\* terminal.get_characters_grouped(grouping): one group per non-empty line,
\* lines in traversal order, a line's characters in reading order
GetCharactersGrouped(grouping) ==
    LET keys == SortInts({GroupKey(grouping, c) : c \in chars}, KeyAscending(grouping))
    IN  [i \in 1..Len(keys) |->
            SortChars({c \in chars : GroupKey(grouping, c) = keys[i]})]

\* ------------------------------------------------------------ a character
\* character.is_active
IsActive(c) == life[c] # 0

\* the life of a character after n calls of character.tick()
Ticked(c, n) ==
    IF life[c] = Forever THEN Forever
    ELSE IF life[c] > n THEN life[c] - n ELSE 0

\* ------------------------------------------------------------ both effects
\* input_coord.row / output_area.top: Python's true division raises
\* ZeroDivisionError on a zero divisor, else yields the quotient num/den
Fraction(row, t) == [raised |-> t = 0, num |-> row, den |-> t]

\* the first loop of prepare_data raises at its first character when top is 0
ColorLoopRaises == chars # {} /\ Fraction(Row(GetCharacters[1]), top).raised

\* character_final_color_map after the first loop of prepare_data: the
\* gradient's colour at a fraction is a function of the fraction alone
FinalColorMap == [c \in chars |-> Fraction(Row(c), top)]

SeqToSet(s) == {s[i] : i \in 1..Len(s)}

\* number of occurrences of c in s
Count(s, c) == Cardinality({i \in 1..Len(s) : s[i] = c})

StillActive_AlsoDropsOldest(s) ==
    IF SelectSeq(s, IsActive) = <<>> THEN <<>> ELSE Tail(SelectSeq(s, IsActive))
StillActive_DropsAll(s) == <<>>
\* [character for character in active_chars if character.is_active]
StillActive(s) == SelectSeq(s, IsActive)

Init ==
    /\ effect \in {"wipe", "expand"}
    /\ direction \in IF effect = "wipe" THEN WipeDirections \cup {"unrecognized"}
                     ELSE {"none"}
    /\ wipe_delay_arg \in IF effect = "wipe" THEN 0..MaxDelay ELSE {0}
    /\ top \in 0..MaxTop
    /\ chars \in {S \in SUBSET Canvas(top) : Cardinality(S) <= MaxChars}
    /\ life \in [chars -> (1..MaxLife) \cup {Forever}]
    /\ pc = "start"
    /\ err = "none"
    /\ character_final_color_map = <<>>
    /\ groups = <<>>
    /\ pending_groups = <<>>
    /\ active_chars = <<>>
    /\ wipe_delay = 0
    /\ visible = {}
    /\ frames = 0
    /\ tick = 0
    /\ ticks = [c \in chars |-> 0]
    /\ released_at = [c \in chars |-> Never]
    /\ release_log = <<>>
    /\ settled = <<>>
    /\ shown = {}
    /\ rounds = 0
    /\ lastOp = "none"

inputs == <<effect, direction, wipe_delay_arg, top, chars>>

\* an exception leaves run()
Raise(e) ==
    /\ pc' = "error"
    /\ err' = e

Activate_NotShown(group) ==
    /\ visible' = visible
    /\ active_chars' = active_chars \o group
    /\ release_log' = release_log
    /\ released_at' = [c \in chars |->
           IF c \in SeqToSet(group) THEN tick ELSE released_at[c]]

Activate_Prepends(group) ==
    /\ visible' = visible \cup SeqToSet(group)
    /\ active_chars' = group \o active_chars
    /\ release_log' = release_log \o group
    /\ released_at' = [c \in chars |->
           IF c \in SeqToSet(group) THEN tick ELSE released_at[c]]

Activate_ShowsAll(group) ==
    /\ visible' = chars
    /\ active_chars' = active_chars \o group
    /\ release_log' = release_log \o group
    /\ released_at' = [c \in chars |->
           IF c \in SeqToSet(group) THEN tick ELSE released_at[c]]

\* for character in group: set_character_visibility(character, True);
\* active_chars.append(character)
Activate(group) ==
    /\ visible' = visible \cup SeqToSet(group)
    /\ active_chars' = active_chars \o group
    /\ release_log' = release_log \o group
    /\ released_at' = [c \in chars |->
           IF c \in SeqToSet(group) THEN tick ELSE released_at[c]]

AnimateChars_TicksAll ==
    /\ life' = [c \in chars |-> Ticked(c, 1)]
    /\ ticks' = [c \in chars |-> ticks[c] + 1]
    /\ rounds' = rounds + 1

\* animate_chars(): character.tick() on every member of active_chars
AnimateChars ==
    /\ life' = [c \in chars |-> Ticked(c, Count(active_chars, c))]
    /\ ticks' = [c \in chars |-> ticks[c] + Count(active_chars, c)]
    /\ rounds' = rounds + 1

\* self.active_chars = [character for character in self.active_chars if character.is_active]
Reap ==
    /\ active_chars' = StillActive(active_chars)
    /\ settled' = settled \o
           SelectSeq(active_chars, LAMBDA c : c \notin SeqToSet(active_chars'))

\* the reap as a function: active_chars and settled after it
ReapResult(r) ==
    [active |-> StillActive(r.active),
     settled |-> r.settled \o
         SelectSeq(r.active, LAMBDA c : c \notin SeqToSet(StillActive(r.active)))]

\* ------------------------------------------------------------------- wipe
LookupGrouping_Defaulted(d) ==
    IF d \in DOMAIN sort_map THEN sort_map[d] ELSE "COLUMN_LEFT_TO_RIGHT"
\* sort_map[self.direction]: a direction that is no key raises KeyError
LookupGrouping(d) == IF d \in DOMAIN sort_map THEN sort_map[d] ELSE "KeyError"

\* wipe_delay = self.args.wipe_delay, before the loop
InitialWipeDelay == wipe_delay_arg

\* run(): prepare_data() and the initialisation of the countdown
WipePrepareData ==
    /\ pc = "start"
    /\ UNCHANGED <<shown, rounds>>
    /\ effect = "wipe"
    /\ lastOp' = "prepare"
    /\ IF ColorLoopRaises
       THEN /\ Raise("ZeroDivisionError")
            /\ UNCHANGED <<character_final_color_map, groups, pending_groups, wipe_delay>>
       ELSE /\ character_final_color_map' = FinalColorMap
            /\ IF LookupGrouping(direction) = "KeyError"
               THEN /\ Raise("KeyError")
                    /\ UNCHANGED <<groups, pending_groups, wipe_delay>>
               ELSE /\ groups' = GetCharactersGrouped(LookupGrouping(direction))
                    /\ pending_groups' = groups'
                    /\ wipe_delay' = InitialWipeDelay
                    /\ pc' = "w_test"
                    /\ err' = err
    /\ UNCHANGED <<inputs, life, active_chars, visible, frames, tick, ticks,
                   released_at, release_log, settled>>

WipeLoopCondition_PendingOnly == pending_groups # <<>>
WipeLoopCondition_DoWhile == tick = 0 \/ pending_groups # <<>> \/ active_chars # <<>>
\* while self.pending_groups or self.active_chars
WipeLoopCondition == pending_groups # <<>> \/ active_chars # <<>>

WipeLoopTest ==
    /\ pc = "w_test"
    /\ UNCHANGED <<shown, rounds>>
    /\ IF WipeLoopCondition
       THEN tick < MaxTick /\ pc' = "w_release"
       ELSE pc' = "done"
    /\ lastOp' = "check"
    /\ UNCHANGED <<inputs, life, err, character_final_color_map, groups, pending_groups,
                   active_chars, wipe_delay, visible, frames, tick, ticks,
                   released_at, release_log, settled>>

NextGroup_Last == pending_groups[Len(pending_groups)]
\* next_group = self.pending_groups.pop(0): the group popped
NextGroup == Head(pending_groups)

RemainingGroups_Cleared == <<>>
RemainingGroups_NotPopped == pending_groups
\* pending_groups after pop(0)
RemainingGroups == Tail(pending_groups)

ResetWipeDelay_Skipped == wipe_delay
\* wipe_delay = self.args.wipe_delay, after the release
ResetWipeDelay == wipe_delay_arg

CountedDown_Stuck == wipe_delay
\* wipe_delay -= 1
CountedDown == wipe_delay - 1

AfterRelease_PrintsOnRelease ==
    IF pending_groups' # pending_groups THEN "w_print" ELSE "w_animate"
AfterRelease_SkipsPrint == "w_animate"
\* the statement after the if/else: self.terminal.print()
AfterRelease == "w_print"

\* the if/else on wipe_delay at the head of the loop body
WipeRelease ==
    /\ pc = "w_release"
    /\ UNCHANGED <<shown, rounds>>
    /\ IF wipe_delay = 0
       THEN /\ IF pending_groups # <<>>
               THEN /\ pending_groups' = RemainingGroups
                    /\ Activate(NextGroup)
               ELSE UNCHANGED <<pending_groups, visible, active_chars, released_at,
                                release_log>>
            /\ wipe_delay' = ResetWipeDelay
       ELSE /\ wipe_delay' = CountedDown
            /\ UNCHANGED <<pending_groups, visible, active_chars, released_at,
                           release_log>>
    /\ pc' = AfterRelease
    /\ lastOp' = "release"
    /\ UNCHANGED <<inputs, life, err, character_final_color_map, groups, frames, tick,
                   ticks, settled>>

\* self.terminal.print()
WipePrint ==
    /\ pc = "w_print"
    /\ shown' = shown \cup visible
    /\ UNCHANGED rounds
    /\ frames' = frames + 1
    /\ pc' = "w_animate"
    /\ lastOp' = "render"
    /\ UNCHANGED <<inputs, life, err, character_final_color_map, groups, pending_groups,
                   active_chars, wipe_delay, visible, tick, ticks, released_at,
                   release_log, settled>>

\* self.animate_chars()
WipeAnimateChars ==
    /\ pc = "w_animate"
    /\ UNCHANGED shown
    /\ AnimateChars
    /\ pc' = "w_reap"
    /\ lastOp' = "advance"
    /\ UNCHANGED <<inputs, err, character_final_color_map, groups, pending_groups,
                   active_chars, wipe_delay, visible, frames, tick, released_at,
                   release_log, settled>>

\* the reassignment of active_chars that ends the loop body
WipeReap ==
    /\ pc = "w_reap"
    /\ UNCHANGED <<shown, rounds>>
    /\ Reap
    /\ tick' = tick + 1
    /\ pc' = "w_test"
    /\ lastOp' = "reap"
    /\ UNCHANGED <<inputs, life, err, character_final_color_map, groups, pending_groups,
                   wipe_delay, visible, frames, ticks, released_at, release_log>>

\* ----------------------------------------------------------------- expand
ExpandActivated_SkipsFirst == IF chars = {} THEN <<>> ELSE Tail(GetCharacters)
\* the characters the second loop of prepare_data visits
ExpandActivated == GetCharacters

\* prepare_data(): the colour loop, then every character is set visible and
\* appended to active_chars
ExpandPrepareData ==
    /\ pc = "start"
    /\ UNCHANGED <<shown, rounds>>
    /\ effect = "expand"
    /\ lastOp' = "prepare"
    /\ IF ColorLoopRaises
       THEN /\ Raise("ZeroDivisionError")
            /\ UNCHANGED <<character_final_color_map, visible, active_chars, released_at,
                           release_log>>
       ELSE /\ character_final_color_map' = FinalColorMap
            /\ Activate(ExpandActivated)
            /\ pc' = "e_print0"
            /\ err' = err
    /\ UNCHANGED <<inputs, life, groups, pending_groups, wipe_delay, frames, tick, ticks,
                   settled>>

\* self.terminal.print() before the loop
ExpandFirstPrint ==
    /\ pc = "e_print0"
    /\ shown' = shown \cup visible
    /\ UNCHANGED rounds
    /\ frames' = frames + 1
    /\ pc' = "e_test"
    /\ lastOp' = "render"
    /\ UNCHANGED <<inputs, life, err, character_final_color_map, groups, pending_groups,
                   active_chars, wipe_delay, visible, tick, ticks, released_at,
                   release_log, settled>>

\* while self.active_chars
ExpandLoopCondition == active_chars # <<>>

ExpandLoopTest ==
    /\ pc = "e_test"
    /\ UNCHANGED <<shown, rounds>>
    /\ IF ExpandLoopCondition
       THEN tick < MaxTick /\ pc' = "e_animate"
       ELSE pc' = "done"
    /\ lastOp' = "check"
    /\ UNCHANGED <<inputs, life, err, character_final_color_map, groups, pending_groups,
                   active_chars, wipe_delay, visible, frames, tick, ticks,
                   released_at, release_log, settled>>

\* self.animate_chars()
ExpandAnimateChars ==
    /\ pc = "e_animate"
    /\ UNCHANGED shown
    /\ AnimateChars
    /\ pc' = "e_reap"
    /\ lastOp' = "advance"
    /\ UNCHANGED <<inputs, err, character_final_color_map, groups, pending_groups,
                   active_chars, wipe_delay, visible, frames, tick, released_at,
                   release_log, settled>>

\* the reassignment of active_chars in the loop body
ExpandReap ==
    /\ pc = "e_reap"
    /\ UNCHANGED <<shown, rounds>>
    /\ Reap
    /\ pc' = "e_print"
    /\ lastOp' = "reap"
    /\ UNCHANGED <<inputs, life, err, character_final_color_map, groups, pending_groups,
                   wipe_delay, visible, frames, tick, ticks, released_at, release_log>>

\* self.terminal.print() at the end of the loop body
ExpandPrint ==
    /\ pc = "e_print"
    /\ shown' = shown \cup visible
    /\ UNCHANGED rounds
    /\ frames' = frames + 1
    /\ tick' = tick + 1
    /\ pc' = "e_test"
    /\ lastOp' = "render"
    /\ UNCHANGED <<inputs, life, err, character_final_color_map, groups, pending_groups,
                   active_chars, wipe_delay, visible, ticks, released_at, release_log,
                   settled>>

Next ==
    \/ WipePrepareData
    \/ WipeLoopTest
    \/ WipeRelease
    \/ WipePrint
    \/ WipeAnimateChars
    \/ WipeReap
    \/ ExpandPrepareData
    \/ ExpandFirstPrint
    \/ ExpandLoopTest
    \/ ExpandAnimateChars
    \/ ExpandReap
    \/ ExpandPrint

Spec == Init /\ [][Next]_vars

\* every character finishes after finitely many tick() calls
AllFinish == \A c \in chars : life[c] # Forever

\* construction with characters that all finish
FinishingInit == Init /\ \A c \in chars : life[c] # Forever

\* the runs in which every character finishes; run() is one sequential
\* thread, so a step that can be taken is taken
FairSpec == FinishingInit /\ [][Next]_vars /\ WF_vars(Next)

\* ------------------------------------------------------------ the partitions
\* c is in a group that is still queued
InPending(c) == \E i \in 1..Len(pending_groups) : c \in SeqToSet(pending_groups[i])
InActive(c) == c \in SeqToSet(active_chars)
InSettled(c) == c \in SeqToSet(settled)

\* the run loop has been entered (RUNNING) or left (DONE)
Prepared == pc \notin {"start", "error"}
Done == pc = "done"

\* ------------------------------------------------------------------ claims
\* the tick the claim gives group i (1-based here, k = i - 1 in the claim)
TickAsStated(i) == (i - 1) * (wipe_delay_arg + 1)

\* the tick the countdown gives group i: the countdown starts at the
\* configured delay, so the first release too waits for it
TickByCountdown(i) == wipe_delay_arg + (i - 1) * (wipe_delay_arg + 1)

\* the release step of tick t has been performed
ReleaseStepDone(t) == tick > t \/ (tick = t /\ pc \in {"w_print", "w_animate", "w_reap"})

\* C1 as stated: in a wipe run with stagger delay D, group k is released in
\* exactly tick k*(D+1), group 0 in tick 0 for every D.
C1_ReleaseTickAsStated ==
    (effect = "wipe" /\ Prepared) =>
        \A i \in 1..Len(groups) : \A c \in SeqToSet(groups[i]) :
            /\ released_at[c] # Never => released_at[c] = TickAsStated(i)
            /\ ReleaseStepDone(TickAsStated(i)) => released_at[c] # Never

\* C1 amended: in a wipe run with stagger delay D, group k is released in
\* exactly tick D + k*(D+1): not before, and not later.
C1_ReleaseTick ==
    (effect = "wipe" /\ Prepared) =>
        \A i \in 1..Len(groups) : \A c \in SeqToSet(groups[i]) :
            /\ released_at[c] # Never => released_at[c] = TickByCountdown(i)
            /\ ReleaseStepDone(TickByCountdown(i)) => released_at[c] # Never

C1_Witness ==
    /\ effect = "wipe"
    /\ wipe_delay_arg = 1
    /\ Len(groups) = 2
    /\ \A c \in chars : released_at[c] = TickByCountdown(2) \/ released_at[c] = TickByCountdown(1)
    /\ \E c \in chars : released_at[c] = TickByCountdown(2)

\* C2: for a non-empty collection, in both effects, when the run has reached
\* DONE every character has been released exactly once and reaped exactly
\* once: it is settled exactly once and neither pending nor active.
C2_AllSettledOnce ==
    (Done /\ chars # {}) =>
        \A c \in chars :
            /\ Count(release_log, c) = 1
            /\ Count(settled, c) = 1
            /\ ~InActive(c)
            /\ ~InPending(c)

C2_Witness ==
    /\ Done
    /\ effect = "wipe"
    /\ Len(groups) >= 2
    /\ Len(settled) >= 2

\* c is in exactly one of pending, active, settled, and there once
InOnePartition(c) ==
    /\ Cardinality({p \in {"pending", "active", "settled"} :
                       \/ p = "pending" /\ InPending(c)
                       \/ p = "active" /\ InActive(c)
                       \/ p = "settled" /\ InSettled(c)}) = 1
    /\ Count(active_chars, c) <= 1
    /\ Count(settled, c) <= 1
    /\ Cardinality({i \in 1..Len(pending_groups) : c \in SeqToSet(pending_groups[i])}) <= 1
    /\ \A i \in 1..Len(pending_groups) : Count(pending_groups[i], c) <= 1

\* the moves of c between partitions in one step of a prepared run
MovesAsSpecified(c) ==
    /\ ~InPending(c) => ~InPending(c)'
    /\ (InPending(c) /\ ~InPending(c)') => (InActive(c)' /\ lastOp' = "release")
    /\ (~InActive(c) /\ InActive(c)') => InPending(c)
    /\ (InActive(c) /\ ~InActive(c)') =>
           (InSettled(c)' /\ ~IsActive(c) /\ lastOp = "advance" /\ lastOp' = "reap")
    /\ InSettled(c) => (InSettled(c)' /\ ~InActive(c)' /\ ~InPending(c)')

\* C3: in every state of a run after preparation each character is in
\* exactly one of pending, active, settled; a character moves only from
\* pending to active (at a release) and from active to settled (when it is
\* not alive at a reap after an advance); a settled character stays settled.
C3_Partition ==
    /\ [](Prepared => \A c \in chars : InOnePartition(c))
    /\ [][Prepared => \A c \in chars : MovesAsSpecified(c)]_vars

C3_Witness ==
    /\ effect = "wipe"
    /\ Len(groups) = 2
    /\ \E c \in chars : InActive(c)
    /\ \E c \in chars : InSettled(c)

\* C4: the run is DONE only with pending and active both empty; a character
\* leaves active only when it is not alive; so at DONE every released
\* character is not alive, and a run with a released character that never
\* finishes is never DONE.
C4_DoneOnlyWhenAllFinished ==
    /\ Done => /\ pending_groups = <<>>
               /\ active_chars = <<>>
               /\ \A c \in chars : released_at[c] # Never => ~IsActive(c)
    /\ \A c \in SeqToSet(settled) : ~IsActive(c)
    /\ (\E c \in chars : released_at[c] # Never /\ life[c] = Forever) => ~Done

C4_Witness ==
    /\ Done
    /\ \E c \in chars, d \in chars : ticks[c] = 1 /\ ticks[d] = 2

\* C5: if every character is not alive after finitely many advances, then
\* for every number of groups and every stagger delay a run that has been
\* prepared eventually reaches DONE (every pending group is released, every
\* active character reaped).
C5_EventuallyDone == (Prepared /\ AllFinish) ~> Done

C5_Witness ==
    /\ Done
    /\ AllFinish
    /\ effect = "wipe"
    /\ wipe_delay_arg >= 1
    /\ Len(groups) >= 2
    /\ \E c \in chars : ticks[c] >= 2

\* C6 as stated: for an empty collection, in both effects, the run is DONE
\* right after preparation with zero frames rendered and zero advances.
C6_EmptyRunAsStated ==
    chars = {} =>
        /\ pc \in {"start", "w_test", "e_print0", "e_test", "done", "error"}
        /\ frames = 0
        /\ tick = 0

\* C6 amended: for an empty collection no iteration of the run loop is
\* entered and nothing is advanced; the wipe run is DONE with zero frames
\* rendered, the expand run is DONE with exactly one frame rendered (the
\* print before its loop).
C6_EmptyRun ==
    chars = {} =>
        /\ pc \in {"start", "w_test", "e_print0", "e_test", "done", "error"}
        /\ frames = IF effect = "expand" /\ pc \in {"e_test", "done"} THEN 1 ELSE 0
        /\ tick = 0
        /\ pc = "error" => (effect = "wipe" /\ direction \notin WipeDirections)

C6_Witness ==
    /\ chars = {}
    /\ Done
    /\ effect = "expand"
    /\ frames = 1

\* C7: in the expand effect every character of the collection is made
\* visible and put in the active set during preparation: all are released
\* in tick 0, once, before the first frame is rendered and before any
\* advance, whatever the size of the collection.
C7_ExpandAllAtPreparation ==
    (effect = "expand" /\ Prepared) =>
        /\ \A c \in chars :
              /\ c \in visible
              /\ released_at[c] = 0
              /\ Count(release_log, c) = 1
        /\ frames = 0 => pc = "e_print0"
        /\ pc = "e_print0" =>
              /\ frames = 0
              /\ \A c \in chars : Count(active_chars, c) = 1 /\ ticks[c] = 0

C7_Witness ==
    /\ effect = "expand"
    /\ pc = "e_print0"
    /\ Cardinality(chars) >= 2

\* C8: with a canvas top extent of zero and a non-empty collection, the
\* fraction of a character is 0 and preparation raises no division error.
C8_ZeroExtentDefined ==
    (top = 0 /\ chars # {}) =>
        /\ err # "ZeroDivisionError"
        /\ Prepared => \A c \in chars :
              /\ ~character_final_color_map[c].raised
              /\ character_final_color_map[c].num = 0

\* C9: a wipe run whose direction is none of the eight recognised ones
\* ends with an error in preparation; no grouping is substituted, and no
\* frame is rendered, no character made visible, no group queued and no
\* character advanced.
C9_UnrecognizedDirectionRaises ==
    (effect = "wipe" /\ direction \notin WipeDirections) =>
        /\ pc \in {"start", "error"}
        /\ lastOp = "prepare" => (pc = "error" /\ err \in {"KeyError", "ZeroDivisionError"})
        /\ frames = 0
        /\ visible = {}
        /\ release_log = <<>>
        /\ groups = <<>>
        /\ pending_groups = <<>>
        /\ active_chars = <<>>
        /\ \A c \in chars : ticks[c] = 0

C9_Witness ==
    /\ pc = "error"
    /\ err = "KeyError"
    /\ chars # {}

\* the order of the steps of a tick, and from the done-check to the next tick
TickOrder ==
    { <<"check", "release">>, <<"release", "render">>, <<"render", "advance">>,
      <<"advance", "reap">>, <<"reap", "check">> }

\* the steps of the wipe run: preparation, the done-check, then ticks
WipeOrder == {<<"none", "prepare">>, <<"prepare", "check">>} \cup TickOrder

\* the steps of the expand run as the claim has them: the activation is in
\* the preparation, then each tick renders, advances, reaps and checks
ExpandOrderAsStated ==
    { <<"none", "prepare">>, <<"prepare", "render">>, <<"render", "advance">>,
      <<"advance", "reap">>, <<"reap", "check">>, <<"check", "render">> }

\* the steps of the expand run: the activation is in the preparation, a
\* frame is rendered, and each iteration advances, reaps, renders, checks
ExpandOrder ==
    { <<"none", "prepare">>, <<"prepare", "render">>, <<"render", "check">>,
      <<"check", "advance">>, <<"advance", "reap">>, <<"reap", "render">> }

\* the step just taken follows the step before it in the given order
StepFollows(order) == <<lastOp, lastOp'>> \in order

\* C10 as stated: in both run loops each tick does release/activate, render,
\* advance, reap, done-check in this order, the last tick included: the run
\* stops at the done-check that follows the last reap.
C10_TickOrderAsStated ==
    [][StepFollows(IF effect = "wipe" THEN WipeOrder ELSE ExpandOrderAsStated)]_vars

\* C10 amended: the wipe run loop does release, render, advance, reap,
\* done-check in each tick; the expand run activates in preparation, renders
\* a frame, and then does advance, reap, render, done-check in each
\* iteration, so one frame is rendered after the last reap before it stops.
C10_TickOrder ==
    [][StepFollows(IF effect = "wipe" THEN WipeOrder ELSE ExpandOrder)]_vars

C10_Witness ==
    /\ Done
    /\ effect = "expand"
    /\ tick >= 2
    /\ frames = tick + 1

\* C11: in both effects a character is advanced only after it was made
\* visible and a frame was rendered while it was visible: every character
\* about to be advanced, and every character advanced so far, is visible
\* and has been in a rendered frame.
C11_VisibleBeforeAdvance ==
    /\ \A c \in chars : ticks[c] > 0 => (c \in visible /\ c \in shown)
    /\ pc \in {"w_animate", "e_animate"} =>
           \A c \in SeqToSet(active_chars) : c \in visible /\ c \in shown

C11_Witness ==
    /\ effect = "wipe"
    /\ \E c \in chars : ticks[c] = 1 /\ c \in shown
    /\ \E c \in chars : InPending(c) /\ c \notin shown

\* active_chars and settled of the state, as the argument of the reap
Partitions == [active |-> active_chars, settled |-> settled]

\* C12: applying the reap twice with no advance in between gives the same
\* active and the same settled sequence as applying it once, and the reap
\* leaves the characters already settled where they are.
C12_ReapIdempotent ==
    /\ ReapResult(ReapResult(Partitions)) = ReapResult(Partitions)
    /\ \A i \in 1..Len(settled) : ReapResult(Partitions).settled[i] = settled[i]
    /\ \A c \in SeqToSet(settled) : c \notin SeqToSet(ReapResult(Partitions).active)

C12_Witness ==
    /\ pc = "w_reap"
    /\ \E c \in SeqToSet(active_chars) : ~IsActive(c)
    /\ \E c \in SeqToSet(active_chars) : IsActive(c)

\* C13: for every canvas top extent E and every origin row r with
\* 0 <= r <= E the fraction r / E is defined, lies in [0, 1] and does not
\* decrease with the row; stated of the fractions preparation computes.
C13_FractionInUnitInterval ==
    lastOp # "none" =>
        \A c \in chars :
            /\ c \in DOMAIN character_final_color_map
            /\ ~character_final_color_map[c].raised
            /\ character_final_color_map[c].den > 0
            /\ 0 <= character_final_color_map[c].num
            /\ character_final_color_map[c].num <= character_final_color_map[c].den
            /\ \A d \in chars :
                  (d \in DOMAIN character_final_color_map /\ Row(c) <= Row(d)) =>
                      character_final_color_map[c].num * character_final_color_map[d].den
                          <= character_final_color_map[d].num * character_final_color_map[c].den

\* the tick group i was released in (Never while it is pending)
GroupTick(i) == released_at[groups[i][1]]

\* number of groups released so far
ReleasedGroups == Len(groups) - Len(pending_groups)

\* the release step of a tick: count down without releasing, or release at
\* most one group and reset the countdown to the configured delay
CountsDownOrReleasesOne ==
    IF wipe_delay > 0
    THEN /\ wipe_delay' = wipe_delay - 1
         /\ UNCHANGED <<pending_groups, active_chars, visible>>
    ELSE /\ wipe_delay' = wipe_delay_arg
         /\ IF pending_groups # <<>>
            THEN /\ pending_groups' = Tail(pending_groups)
                 /\ active_chars' = active_chars \o Head(pending_groups)
            ELSE UNCHANGED <<pending_groups, active_chars, visible>>

\* C15: in a wipe run with stagger delay D every tick either decrements the
\* countdown without releasing, or releases at most one group and resets the
\* countdown to D, and no other step touches countdown or queue; so two
\* consecutive releases are exactly D+1 ticks apart, and with D = 0 the
\* countdown is always 0: one group per tick while groups remain.
C15_OneReleasePerTick ==
    /\ [](effect = "wipe" /\ Prepared =>
            /\ \A i \in 1..(Len(groups) - 1) :
                  GroupTick(i + 1) # Never =>
                      GroupTick(i + 1) - GroupTick(i) = wipe_delay_arg + 1
            /\ wipe_delay \in 0..wipe_delay_arg)
    /\ [][(effect = "wipe" /\ Prepared) =>
            IF pc = "w_release" THEN CountsDownOrReleasesOne
            ELSE UNCHANGED <<wipe_delay, pending_groups>>]_vars

C15_Witness ==
    /\ effect = "wipe"
    /\ wipe_delay_arg = 1
    /\ lastOp = "release"
    /\ wipe_delay = 1
    /\ Len(groups) = 2
    /\ pending_groups = <<>>

RECURSIVE Flatten(_)
\* the characters of a sequence of groups, in order
Flatten(gs) == IF gs = <<>> THEN <<>> ELSE Head(gs) \o Flatten(Tail(gs))

\* C16: in a wipe run the groups are released in the order the grouping
\* produced them: the groups released so far are a prefix of that order, the
\* queue is the rest, an earlier group is released in an earlier tick, and
\* no group is skipped or released twice.
C16_ReleasedInTraversalOrder ==
    (effect = "wipe" /\ Prepared) =>
        /\ pending_groups = SubSeq(groups, ReleasedGroups + 1, Len(groups))
        /\ release_log = Flatten(SubSeq(groups, 1, ReleasedGroups))
        /\ \A i \in 1..Len(groups) : \A c \in SeqToSet(groups[i]) :
              /\ released_at[c] = GroupTick(i)
              /\ (GroupTick(i) # Never) = (i <= ReleasedGroups)
              /\ Count(release_log, c) = IF i <= ReleasedGroups THEN 1 ELSE 0
        /\ \A i \in 1..ReleasedGroups : \A j \in 1..ReleasedGroups :
              i < j => GroupTick(i) < GroupTick(j)

C16_Witness ==
    /\ effect = "wipe"
    /\ direction = "column_right_to_left"
    /\ Len(groups) = 2
    /\ ReleasedGroups = 2
    /\ Col(release_log[1]) = 2
    /\ Col(release_log[2]) = 1

\* C17: the advance step of a tick calls tick() exactly once on each
\* character then in active_chars and on no other; no other step advances a
\* character; a pending character has never been advanced, and a settled
\* one is not advanced again.
C17_AdvanceExactlyActive ==
    /\ [](\A c \in chars : (InPending(c) \/ released_at[c] = Never) => ticks[c] = 0)
    /\ [][\A c \in chars :
            /\ ticks'[c] = ticks[c] + (IF lastOp' = "advance" /\ InActive(c) THEN 1 ELSE 0)
            /\ InSettled(c) => ticks'[c] = ticks[c]]_vars

C17_Witness ==
    /\ lastOp = "advance"
    /\ \E c \in chars : InSettled(c) /\ ticks[c] = 1
    /\ \E c \in chars : InActive(c) /\ ticks[c] = 2

\* C18 as stated: over a whole run of either effect the number of frames
\* rendered equals the number of advance rounds.
C18_FramesEqualRoundsAsStated == Done => frames = rounds

\* the print before the loop of the expand run
FramesBeforeLoop == IF effect = "expand" THEN 1 ELSE 0

\* C18 amended: each iteration of the run loop renders exactly one frame and
\* runs one advance round; over a whole wipe run frames = advance rounds,
\* over a whole expand run frames = advance rounds + 1 (the print before the
\* loop); rendering changes none of pending, active, settled, countdown.
C18_FramesAndRounds ==
    /\ [](/\ Done => frames = rounds + FramesBeforeLoop
          /\ Done => rounds = tick
          /\ frames - rounds \in {0, 1})
    /\ [][frames' # frames =>
            /\ frames' = frames + 1
            /\ lastOp' = "render"
            /\ UNCHANGED <<pending_groups, active_chars, settled, wipe_delay>>]_vars

C18_Witness ==
    /\ Done
    /\ effect = "wipe"
    /\ wipe_delay_arg = 1
    /\ frames >= 3
    /\ frames = rounds

\* position of c in the release log
ReleasePosition(c) == CHOOSE i \in 1..Len(release_log) : release_log[i] = c

\* active_chars after a step: the old sequence with a suffix appended, or
\* the old sequence with some members removed and the rest in place
AppendsOrFilters ==
    IF Len(active_chars') >= Len(active_chars)
    THEN SubSeq(active_chars', 1, Len(active_chars)) = active_chars
    ELSE active_chars' =
             SelectSeq(active_chars, LAMBDA c : c \in SeqToSet(active_chars'))

\* C19: active_chars is always in release order; a release only appends to
\* its end, and a reap removes characters without reordering the others.
C19_ActiveInReleaseOrder ==
    /\ [](/\ \A c \in SeqToSet(active_chars) : Count(release_log, c) = 1
          /\ \A i \in 1..Len(active_chars) : \A j \in 1..Len(active_chars) :
                i < j => ReleasePosition(active_chars[i]) < ReleasePosition(active_chars[j]))
    /\ [][AppendsOrFilters]_vars

C19_Witness ==
    /\ effect = "wipe"
    /\ Len(active_chars) = 2
    /\ released_at[active_chars[1]] < released_at[active_chars[2]]
    /\ ticks[active_chars[1]] >= 1

\* the characters of the groups released so far
ReleasedChars == SeqToSet(Flatten(SubSeq(groups, 1, ReleasedGroups)))

\* C20: in a wipe run the visible characters are exactly the characters of
\* the groups released so far, at every rendered frame and between them: no
\* character of a pending group is visible, and a character once visible
\* stays visible, also when it is settled.
C20_VisibleAreReleased ==
    /\ [](effect = "wipe" =>
            /\ visible = ReleasedChars
            /\ shown \subseteq visible
            /\ \A c \in chars : InPending(c) => c \notin visible
            /\ \A c \in chars : (InActive(c) \/ InSettled(c)) => c \in visible)
    /\ [][effect = "wipe" => visible \subseteq visible']_vars

C20_Witness ==
    /\ effect = "wipe"
    /\ lastOp = "render"
    /\ \E c \in chars : InSettled(c) /\ c \in visible /\ c \in shown
    /\ \E c \in chars : InPending(c)

=============================================================================
